---- MODULE Spec2Model ----
(***************************************************************************)
(* pydial: the SSDP responder (SSDPHandler), the multicast listener        *)
(* (SSDPServer) and the announcer thread (SSDPAnnouncerThread) of          *)
(* src/pydial/server.py.                                                   *)
(*                                                                         *)
(* A datagram is a sequence of tokens.  A token stands for a run of        *)
(* characters with no whitespace, ':' or line terminator in it, or for one *)
(* of the separators SP (a blank), COLON (':') and CRLF ('\r\n').          *)
(***************************************************************************)
EXTENDS Integers, Sequences, FiniteSets, TLC

\* ------------------------------------------------------------------ bounds
\* header lines after the request line in a generated datagram
MaxHeaders == 2
\* caller threads that invoke start() and stop() on the one server
NumCallers == 2
\* announcer thread objects the callers may create
MaxThreads == 2
\* length of the formatted reply, in the units sendto() counts
ReplyLen == 2

\* --------------------------------------------------------------- constants
SP == " "
COLON == ":"
CRLF == "\r\n"

\* common.py: SSDP_NT = "urn:dial-multiscreen-org:service:dial:1"
SSDP_NT == <<"urn", COLON, "dial-multiscreen-org", COLON, "service", COLON, "dial", COLON, "1">>
\* server.py: UPNP_SEARCH = 'M-SEARCH * HTTP/1.1'
UPNP_SEARCH == <<"M-SEARCH", SP, "*", SP, "HTTP/1.1">>
BACKOFF_DEFAULT == 10
\* SSDPAnnouncerThread.__init__: repeats=3
Repeats == 3
\* SSDPAnnouncerThread.__init__: advertisments=["upnp:rootdevice", SSDP_NT]
Advertisments == <<"upnp:rootdevice", "dial">>

\* an attribute's value: <<>> while it has never been assigned, else <<v>>
Unset == <<>>

\* ----------------------------------------------------- string operations
Whitespace == {SP, CRLF}
Digits == {"0", "1", "2", "3"}

DigitVal(t) == CASE t = "0" -> 0 [] t = "1" -> 1 [] t = "2" -> 2 [] t = "3" -> 3

RECURSIVE LStrip(_)
LStrip(s) == IF s # <<>> /\ Head(s) \in Whitespace THEN LStrip(Tail(s)) ELSE s

RECURSIVE RStrip(_)
RStrip(s) ==
    IF s # <<>> /\ s[Len(s)] \in Whitespace THEN RStrip(SubSeq(s, 1, Len(s) - 1)) ELSE s

\* str.strip()
Strip(s) == RStrip(LStrip(s))

\* index of the first occurrence of token t in s, 0 when there is none
RECURSIVE FindFrom(_, _, _)
FindFrom(s, t, i) ==
    IF i > Len(s) THEN 0 ELSE IF s[i] = t THEN i ELSE FindFrom(s, t, i + 1)

\* str.split('\r\n'): always at least one piece
RECURSIVE SplitLines(_)
SplitLines(s) ==
    LET k == FindFrom(s, CRLF, 1) IN
    IF k = 0 THEN <<s>>
    ELSE <<SubSeq(s, 1, k - 1)>> \o SplitLines(SubSeq(s, k + 1, Len(s)))

\* line.split(':', 1): one piece when the line holds no ':', else two
SplitField(line) ==
    LET k == FindFrom(line, COLON, 1) IN
    IF k = 0 THEN <<line>>
    ELSE <<SubSeq(line, 1, k - 1), SubSeq(line, k + 1, Len(line))>>

RECURSIVE DigitsValue(_, _)
DigitsValue(s, acc) ==
    IF s = <<>> THEN acc ELSE DigitsValue(Tail(s), 10 * acc + DigitVal(Head(s)))

AllDigits(s) == s # <<>> /\ \A i \in 1..Len(s) : s[i] \in Digits

\* int(text): [ok, val]; ok is FALSE where int() raises ValueError
ParseInt(text) ==
    LET s == Strip(text) IN
    IF AllDigits(s) THEN [ok |-> TRUE, val |-> DigitsValue(s, 0)]
    ELSE IF Len(s) > 1 /\ s[1] = "-" /\ AllDigits(Tail(s))
         THEN [ok |-> TRUE, val |-> 0 - DigitsValue(Tail(s), 0)]
    ELSE IF Len(s) > 1 /\ s[1] = "+" /\ AllDigits(Tail(s))
         THEN [ok |-> TRUE, val |-> DigitsValue(Tail(s), 0)]
    ELSE [ok |-> FALSE, val |-> 0]

\* ------------------------------------------------------------- the inputs
Addresses == {"10.0.0.9", "10.0.0.7"}

FirstLines ==
    { UPNP_SEARCH,
      <<"NOTIFY", SP, "*", SP, "HTTP/1.1">>,
      UPNP_SEARCH \o <<SP>>,
      <<CRLF>> \o UPNP_SEARCH }

HeaderLines ==
    { <<"ST", COLON, SP>> \o SSDP_NT,
      <<SP, "ST", SP, COLON>> \o SSDP_NT \o <<SP>>,
      <<"ST", COLON, SP, "upnp", COLON, "rootdevice">>,
      <<"MX", COLON, SP, "2">>,
      <<"MX", COLON, SP, "abc">>,
      <<"MX", COLON, "-", "1">>,
      <<"HOST", COLON, SP, "239.255.255.250", COLON, "1900">>,
      <<"junk">> }

RECURSIVE JoinLines(_)
JoinLines(ls) ==
    IF ls = <<>> THEN <<>> ELSE <<CRLF>> \o Head(ls) \o JoinLines(Tail(ls))

HeaderBlocks == UNION { [1..n -> HeaderLines] : n \in 0..MaxHeaders }

\* every datagram the handler is tried on: a first line, up to MaxHeaders
\* header lines, and the terminating blank line or nothing
Datagrams ==
    { f \o JoinLines(hs) \o e :
        f \in FirstLines, hs \in HeaderBlocks, e \in {<<>>, <<CRLF, CRLF>>} }
    \cup {<<>>}

\* the datagrams the receive loop is fed while start() and stop() race
Probes ==
    { UPNP_SEARCH \o <<CRLF, "ST", COLON, SP>> \o SSDP_NT
          \o <<CRLF, "MX", COLON, SP, "1", CRLF, CRLF>>,
      UPNP_SEARCH \o <<CRLF, "ST", COLON, SP>> \o SSDP_NT \o <<CRLF, CRLF>> }

ProbeSource == "10.0.0.9"

\* --------------------------------------------------------- SSDPHandler
\* handle(), line 72: the test of the request line
IsSearchLineAnyRequest(line) == TRUE
IsSearchLine(line) == line = UPNP_SEARCH

\* handle(), line 78: the test of one header against the search target
IsDialSearchAnyTarget(field, val) == field = <<"ST">>
IsDialSearch(field, val) == field = <<"ST">> /\ val = SSDP_NT

\* the value of self.max_backoff when handle() starts: the base class's
\* __init__ (line 61) runs handle() before line 63 assigns the default
BackoffAtHandle == Unset

\* handle(), lines 76-85: the loop over the header lines; st is
\* [dial_search, max_backoff, exc]
RECURSIVE ScanHeaders(_, _, _)
ScanHeaders(data, i, st) ==
    IF i > Len(data) THEN st
    ELSE LET parts == SplitField(data[i]) IN
         IF Len(parts) # 2 THEN [st EXCEPT !.exc = "ValueError"]
         ELSE LET field == Strip(parts[1])
                  val == Strip(parts[2])
              IN IF IsDialSearch(field, val)
                 THEN ScanHeaders(data, i + 1, [st EXCEPT !.dial_search = TRUE])
                 ELSE IF field = <<"MX">>
                 THEN LET n == ParseInt(val) IN
                      ScanHeaders(data, i + 1,
                          IF n.ok THEN [st EXCEPT !.max_backoff = <<n.val>>] ELSE st)
                 ELSE ScanHeaders(data, i + 1, st)

\* handle(), lines 71-87, up to the call of _send_reply:
\* [dial_search, max_backoff, exc]
Handle(dgram) ==
    LET data == SplitLines(Strip(dgram))
        st0 == [dial_search |-> FALSE, max_backoff |-> BackoffAtHandle, exc |-> "none"]
    IN IF ~IsSearchLine(data[1]) THEN st0 ELSE ScanHeaders(data, 2, st0)

\* handle() on every datagram of the model
Parsed == [dgram \in Datagrams \cup Probes |-> Handle(dgram)]

\* _send_reply(), line 91: random.randint(0, self.max_backoff); exc names
\* what the line raises, delays the values it can draw
Backoff(max_backoff) ==
    IF max_backoff = Unset THEN [exc |-> "AttributeError", delays |-> {}]
    ELSE IF max_backoff[1] < 0 THEN [exc |-> "ValueError", delays |-> {}]
    ELSE [exc |-> "none", delays |-> 0..max_backoff[1]]

\* --------------------------------------------------------- the messages
\* SSDPServer.__init__, lines 135-143: the field mapping, its values tokens
FieldsAtInit ==
    [ddd_url |-> <<"http", COLON, "//host/dd.xml">>,
     product_name |-> <<"pydial">>,
     product_version |-> <<"0.01">>,
     os_name |-> <<"Linux">>,
     os_version |-> <<"5">>,
     max_age |-> <<"1800">>,
     usn |-> <<"uuid", COLON, "1b4e28ba">>]

\* _sendOne(), lines 193-196, with the server's mapping f: the mapping left
\* in the server and the nt and usn the formatted message carries
SendOneAliased(f, ad) ==
    LET local == [key \in DOMAIN f \cup {"nt"} |->
                     IF key = "nt" THEN <<ad>>
                     ELSE IF key = "usn" THEN f["usn"] \o <<COLON, COLON, ad>>
                     ELSE f[key]]
    IN [server |-> local, msg |-> [nt |-> local["nt"], usn |-> local["usn"]]]

SendOne(f, ad) ==
    LET copy == f
        local == [key \in DOMAIN copy \cup {"nt"} |->
                     IF key = "nt" THEN <<ad>>
                     ELSE IF key = "usn" THEN copy["usn"] \o <<COLON, COLON, ad>>
                     ELSE copy[key]]
    IN [server |-> f, msg |-> [nt |-> local["nt"], usn |-> local["usn"]]]

\* _send_reply(), line 95: the usn SSDP_REPLY is formatted with
ReplyUsn(f) == f["usn"]

\* no message yet
NoMsg == [nt |-> <<>>, usn |-> <<>>]

\* ------------------------------------------------------------------ state
\* the thread that constructed the server
Main == 0
Callers == 1..NumCallers
Threads == 1..MaxThreads
NumAds == Len(Advertisments)
\* sends of one _sendAll
CycleLen == Repeats * NumAds

VARIABLES
    announcer,   \* SSDPServer.announcer: 0 is None, else the thread object
    thread,      \* per thread object: life (unborn, new, alive, dead), pc, k,
                 \* msg (the last message it broadcast)
    stopping,    \* per thread object: its Event
    caller,      \* per caller thread and Main: pc, ref (the announcer it
                 \* loaded), joined
    handler,     \* per caller thread: the SSDPHandler its receive loop runs
    sentBye,     \* per thread object, per advertisment: byebyes broadcast
    mixed,       \* per thread object: it sent an alive after a byebye
    asked,       \* per thread object: a stop() found it running (line 179)
    late,        \* per thread object: it sent an alive after asked
    stopped,     \* a stop() that joined a running announcer has returned
    after,       \* a datagram was sent while stopped
    fields       \* SSDPServer.fields

vars == <<announcer, thread, stopping, caller, handler,
          sentBye, mixed, asked, late, stopped, after, fields>>

NoHandler ==
    [ph |-> "none", dgram |-> <<>>, src |-> "", bound |-> Unset, delay |-> 0,
     sent |-> 0, out |-> <<>>, exc |-> "none", usn |-> <<>>]

Init ==
    /\ announcer = 0
    /\ thread = [t \in Threads |->
                    [life |-> "unborn", pc |-> "test", k |-> 0, msg |-> NoMsg]]
    /\ stopping = [t \in Threads |-> FALSE]
    /\ caller = [c \in {Main} \cup Callers |->
                    [pc |-> "idle", ref |-> 0, joined |-> FALSE]]
    /\ handler = [c \in Callers |-> NoHandler]
    /\ sentBye = [t \in Threads |-> [a \in 1..NumAds |-> 0]]
    /\ mixed = [t \in Threads |-> FALSE]
    /\ asked = [t \in Threads |-> FALSE]
    /\ late = [t \in Threads |-> FALSE]
    /\ stopped = FALSE
    /\ after = FALSE
    /\ fields = FieldsAtInit

\* ------------------------------------------------- the receive loop
\* serve_forever(), reached from start() line 151, takes one datagram and
\* runs SSDPHandler on it in the same thread: handle() to the sleep of line 91
HandleRequest(c, dgram, src) ==
    /\ LET st == Parsed[dgram]
           b == Backoff(st.max_backoff)
           h == [NoHandler EXCEPT !.dgram = dgram, !.src = src]
       IN IF st.exc # "none" \/ ~st.dial_search
          THEN handler' = [handler EXCEPT ![c] = [h EXCEPT !.ph = "done", !.exc = st.exc]]
          ELSE IF b.exc # "none"
          THEN handler' = [handler EXCEPT ![c] = [h EXCEPT !.ph = "done", !.exc = b.exc]]
          ELSE \E d \in b.delays :
                  handler' = [handler EXCEPT ![c] =
                      [h EXCEPT !.ph = "sleep", !.bound = st.max_backoff, !.delay = d]]
    /\ UNCHANGED <<announcer, thread, stopping, caller,
                   sentBye, mixed, asked, late, stopped, after, fields>>

\* the receive loop of caller c is between two datagrams
Receiving(c) == caller[c].pc = "serve" /\ handler[c].ph = "none"

Receive(c) ==
    /\ Receiving(c)
    /\ \E dgram \in Probes : HandleRequest(c, dgram, ProbeSource)

ReceiveAny(c) ==
    /\ Receiving(c)
    /\ \E dgram \in Datagrams, src \in Addresses : HandleRequest(c, dgram, src)

\* _send_reply(), lines 91-97: the sleep ends, the reply is formatted
Wake(c) ==
    /\ handler[c].ph = "sleep"
    /\ handler' = [handler EXCEPT ![c] =
           [@ EXCEPT !.ph = "send", !.usn = ReplyUsn(fields)]]
    /\ UNCHANGED <<announcer, thread, stopping, caller,
                   sentBye, mixed, asked, late, stopped, after, fields>>

\* _send_reply(), lines 98-99: one sendto() of the whole reply, which puts a
\* datagram on the wire and returns the count n it reports
SendReply(c) ==
    /\ handler[c].ph = "send"
    /\ \E n \in 1..ReplyLen :
         handler' = [handler EXCEPT ![c] =
             [@ EXCEPT !.sent = @ + n,
                       !.out = Append(@, handler[c].src),
                       !.ph = IF handler[c].sent + n < ReplyLen THEN "send" ELSE "done"]]
    /\ after' = (after \/ stopped)
    /\ UNCHANGED <<announcer, thread, stopping, caller,
                   sentBye, mixed, asked, late, stopped, fields>>

\* _send_reply(), line 99: sendto() raises, nothing is put on the wire
SendReplyFails(c) ==
    /\ handler[c].ph = "send"
    /\ handler' = [handler EXCEPT ![c] = [@ EXCEPT !.ph = "done", !.exc = "socket.error"]]
    /\ UNCHANGED <<announcer, thread, stopping, caller,
                   sentBye, mixed, asked, late, stopped, after, fields>>

\* the handler is finished, an exception of handle() leaving the receive
\* loop and the start() call that runs it
FinishPropagates(c) ==
    /\ handler[c].ph = "done"
    /\ handler' = [handler EXCEPT ![c] = NoHandler]
    /\ caller' = [caller EXCEPT ![c].pc = IF handler[c].exc = "none" THEN @ ELSE "raised"]
    /\ UNCHANGED <<announcer, thread, stopping,
                   sentBye, mixed, asked, late, stopped, after, fields>>

\* the handler is finished (an exception of handle() is caught and reported
\* by the receive loop) and the loop goes back to wait for a datagram
Finish(c) ==
    /\ handler[c].ph = "done"
    /\ handler' = [handler EXCEPT ![c] = NoHandler]
    /\ UNCHANGED <<announcer, thread, stopping, caller,
                   sentBye, mixed, asked, late, stopped, after, fields>>

\* ------------------------------------------------------ SSDPServer.start
Unborn == {t \in Threads : thread[t].life = "unborn"}

\* line 147: if not self.announcer
StartCheck(c) ==
    /\ caller[c].pc = "idle"
    /\ caller' = [caller EXCEPT ![c].pc = IF announcer = 0 THEN "s_new" ELSE "idle"]
    /\ UNCHANGED <<announcer, thread, stopping, handler,
                   sentBye, mixed, asked, late, stopped, after, fields>>

\* line 148: self.announcer = SSDPAnnouncerThread(self)
StartCreate(c) ==
    /\ caller[c].pc = "s_new"
    /\ Unborn # {}
    /\ LET t == CHOOSE u \in Unborn : \A v \in Unborn : u <= v IN
         /\ thread' = [thread EXCEPT ![t].life = "new"]
         /\ stopping' = [stopping EXCEPT ![t] = FALSE]
         /\ announcer' = t
    /\ caller' = [caller EXCEPT ![c].pc = "s_load"]
    /\ UNCHANGED <<handler, sentBye, mixed, asked, late, stopped, after, fields>>

\* line 149, the read of self.announcer: None has no attribute start
StartLoad(c) ==
    /\ caller[c].pc = "s_load"
    /\ caller' = [caller EXCEPT ![c] =
           IF announcer = 0 THEN [@ EXCEPT !.pc = "raised"]
           ELSE [@ EXCEPT !.pc = "s_run", !.ref = announcer]]
    /\ UNCHANGED <<announcer, thread, stopping, handler,
                   sentBye, mixed, asked, late, stopped, after, fields>>

\* line 149, the call of Thread.start(): a thread is started once only;
\* line 151: serve_forever()
StartThread(c) ==
    /\ caller[c].pc = "s_run"
    /\ LET t == caller[c].ref IN
         IF thread[t].life = "new"
         THEN /\ thread' = [thread EXCEPT ![t] = [@ EXCEPT !.life = "alive"]]
              /\ caller' = [caller EXCEPT ![c].pc = "serve"]
         ELSE /\ caller' = [caller EXCEPT ![c].pc = "raised"]
              /\ UNCHANGED thread
    /\ UNCHANGED <<announcer, stopping, handler,
                   sentBye, mixed, asked, late, stopped, after, fields>>

\* ------------------------------------------------- SSDPAnnouncerThread.run
\* the loop test taken for unset whatever the event holds
LoopTestBlind(t) ==
    /\ thread[t].life = "alive"
    /\ thread[t].pc = "test"
    /\ thread' = [thread EXCEPT ![t].pc = "alive", ![t].k = 0]
    /\ UNCHANGED <<announcer, stopping, caller, handler,
                   sentBye, mixed, asked, late, stopped, after, fields>>

\* line 173: while not self.stopping.is_set(); line 176 when it is set
LoopTest(t) ==
    /\ thread[t].life = "alive"
    /\ thread[t].pc = "test"
    /\ thread' = [thread EXCEPT ![t].pc = IF stopping[t] THEN "bye" ELSE "alive",
                                ![t].k = 0]
    /\ UNCHANGED <<announcer, stopping, caller, handler,
                   sentBye, mixed, asked, late, stopped, after, fields>>

\* the advertisment of the k-th send of _sendAll (lines 187-188)
AdOf(k) == (k % NumAds) + 1

\* _sendAll(SSDP_ANNOUNCE) looking at the event before each _sendOne and
\* leaving the cycle for the byebyes when it is set
SendAliveCancellable(t) ==
    /\ thread[t].life = "alive"
    /\ thread[t].pc = "alive"
    /\ IF stopping[t]
       THEN /\ thread' = [thread EXCEPT ![t] = [@ EXCEPT !.pc = "bye", !.k = 0]]
            /\ UNCHANGED <<mixed, late, after, fields>>
       ELSE LET one == SendOne(fields, Advertisments[AdOf(thread[t].k)]) IN
            /\ fields' = one.server
            /\ thread' = [thread EXCEPT ![t] =
                   IF thread[t].k + 1 < CycleLen
                   THEN [@ EXCEPT !.k = @ + 1, !.msg = one.msg]
                   ELSE [@ EXCEPT !.pc = "wait", !.k = 0, !.msg = one.msg]]
            /\ mixed' = [mixed EXCEPT ![t] = @ \/ \E a \in 1..NumAds : sentBye[t][a] > 0]
            /\ late' = [late EXCEPT ![t] = @ \/ asked[t]]
            /\ after' = (after \/ stopped)
    /\ UNCHANGED <<announcer, stopping, caller, handler, sentBye, asked, stopped>>

\* _sendAll(SSDP_ANNOUNCE), lines 187-190: one _sendOne and its spacing;
\* after the last one, line 175
SendAlive(t) ==
    /\ thread[t].life = "alive"
    /\ thread[t].pc = "alive"
    /\ LET one == SendOne(fields, Advertisments[AdOf(thread[t].k)]) IN
         /\ fields' = one.server
         /\ thread' = [thread EXCEPT ![t] =
                IF thread[t].k + 1 < CycleLen
                THEN [@ EXCEPT !.k = @ + 1, !.msg = one.msg]
                ELSE [@ EXCEPT !.pc = "wait", !.k = 0, !.msg = one.msg]]
    /\ mixed' = [mixed EXCEPT ![t] = @ \/ \E a \in 1..NumAds : sentBye[t][a] > 0]
    /\ late' = [late EXCEPT ![t] = @ \/ asked[t]]
    /\ after' = (after \/ stopped)
    /\ UNCHANGED <<announcer, stopping, caller, handler, sentBye, asked, stopped>>

\* line 175: self.stopping.wait(timeout) returns, the event set or the time up
Wait(t) ==
    /\ thread[t].life = "alive"
    /\ thread[t].pc = "wait"
    /\ thread' = [thread EXCEPT ![t].pc = "test"]
    /\ UNCHANGED <<announcer, stopping, caller, handler,
                   sentBye, mixed, asked, late, stopped, after, fields>>

\* _sendAll(SSDP_BYEBYE), line 176: one _sendOne and its spacing; after the
\* last one run() returns and the thread ends
SendBye(t) ==
    /\ thread[t].life = "alive"
    /\ thread[t].pc = "bye"
    /\ sentBye' = [sentBye EXCEPT ![t][AdOf(thread[t].k)] = @ + 1]
    /\ LET one == SendOne(fields, Advertisments[AdOf(thread[t].k)]) IN
         /\ fields' = one.server
         /\ thread' = [thread EXCEPT ![t] =
                IF thread[t].k + 1 < CycleLen
                THEN [@ EXCEPT !.k = @ + 1, !.msg = one.msg]
                ELSE [@ EXCEPT !.life = "dead", !.pc = "end", !.k = 0, !.msg = one.msg]]
    /\ after' = (after \/ stopped)
    /\ UNCHANGED <<announcer, stopping, caller, handler, mixed, asked, late, stopped>>

\* _sendOne(), lines 193-197: the message is formatted and sendto() raises;
\* nothing in run() catches it, so the thread ends there
SendFails(t) ==
    /\ thread[t].life = "alive"
    /\ thread[t].pc \in {"alive", "bye"}
    /\ fields' = SendOne(fields, Advertisments[AdOf(thread[t].k)]).server
    /\ thread' = [thread EXCEPT ![t] = [@ EXCEPT !.life = "dead", !.pc = "end", !.k = 0]]
    /\ UNCHANGED <<announcer, stopping, caller, handler,
                   sentBye, mixed, asked, late, stopped, after>>

\* ------------------------------------------------------- SSDPServer.stop
\* line 155: if self.announcer
StopCheck(c) ==
    /\ caller[c].pc = "idle"
    /\ caller' = [caller EXCEPT ![c].pc = IF announcer = 0 THEN "idle" ELSE "p_load"]
    /\ UNCHANGED <<announcer, thread, stopping, handler,
                   sentBye, mixed, asked, late, stopped, after, fields>>

\* line 156, the read of self.announcer: None has no attribute stop
StopLoad(c) ==
    /\ caller[c].pc = "p_load"
    /\ caller' = [caller EXCEPT ![c] =
           IF announcer = 0 THEN [@ EXCEPT !.pc = "raised"]
           ELSE [@ EXCEPT !.pc = "p_alive", !.ref = announcer, !.joined = FALSE]]
    /\ UNCHANGED <<announcer, thread, stopping, handler,
                   sentBye, mixed, asked, late, stopped, after, fields>>

\* SSDPAnnouncerThread.stop(), line 179: if self.isAlive()
StopIsAlive(c) ==
    /\ caller[c].pc = "p_alive"
    /\ caller' = [caller EXCEPT ![c].pc =
           IF thread[caller[c].ref].life = "alive" THEN "p_set" ELSE "p_reset"]
    /\ asked' = [asked EXCEPT ![caller[c].ref] = @ \/ thread[caller[c].ref].life = "alive"]
    /\ UNCHANGED <<announcer, thread, stopping, handler,
                   sentBye, mixed, late, stopped, after, fields>>

\* line 180: self.stopping.set()
StopSet(c) ==
    /\ caller[c].pc = "p_set"
    /\ stopping' = [stopping EXCEPT ![caller[c].ref] = TRUE]
    /\ caller' = [caller EXCEPT ![c].pc = "p_join"]
    /\ UNCHANGED <<announcer, thread, handler,
                   sentBye, mixed, asked, late, stopped, after, fields>>

\* line 182: self.join() returns once the thread has ended
StopJoin(c) ==
    /\ caller[c].pc = "p_join"
    /\ thread[caller[c].ref].life = "dead"
    /\ caller' = [caller EXCEPT ![c].pc = "p_clear", ![c].joined = TRUE]
    /\ UNCHANGED <<announcer, thread, stopping, handler,
                   sentBye, mixed, asked, late, stopped, after, fields>>

\* line 184: self.stopping.clear()
StopClear(c) ==
    /\ caller[c].pc = "p_clear"
    /\ stopping' = [stopping EXCEPT ![caller[c].ref] = FALSE]
    /\ caller' = [caller EXCEPT ![c].pc = "p_reset"]
    /\ UNCHANGED <<announcer, thread, handler,
                   sentBye, mixed, asked, late, stopped, after, fields>>

\* line 157: self.announcer = None, and stop() returns
StopReset(c) ==
    /\ caller[c].pc = "p_reset"
    /\ announcer' = 0
    /\ caller' = [caller EXCEPT ![c].pc = "idle"]
    /\ stopped' = (stopped \/ caller[c].joined)
    /\ UNCHANGED <<thread, stopping, handler, sentBye, mixed, asked, late, after, fields>>

\* --------------------------------------------------------- specifications
Next ==
    \/ \E c \in Callers :
         \/ StartCheck(c) \/ StartCreate(c) \/ StartLoad(c) \/ StartThread(c)
         \/ StopCheck(c) \/ StopLoad(c) \/ StopIsAlive(c) \/ StopSet(c)
         \/ StopJoin(c) \/ StopClear(c) \/ StopReset(c)
         \/ Receive(c) \/ Wake(c) \/ SendReply(c) \/ SendReplyFails(c) \/ Finish(c)
    \/ \E t \in Threads :
         \/ LoopTest(t) \/ SendAlive(t) \/ Wait(t) \/ SendBye(t) \/ SendFails(t)

Spec == Init /\ [][Next]_vars

\* start(), stop() and the announcers alone: no datagram arrives.  The
\* actions left out read caller and write handler and after only.
NextAnnounce ==
    \/ \E c \in Callers :
         \/ StartCheck(c) \/ StartCreate(c) \/ StartLoad(c) \/ StartThread(c)
         \/ StopCheck(c) \/ StopLoad(c) \/ StopIsAlive(c) \/ StopSet(c)
         \/ StopJoin(c) \/ StopClear(c) \/ StopReset(c)
    \/ \E t \in Threads :
         \/ LoopTest(t) \/ SendAlive(t) \/ Wait(t) \/ SendBye(t) \/ SendFails(t)

SpecAnnounce == Init /\ [][NextAnnounce]_vars

\* one caller starts the server and its receive loop is tried on every
\* datagram of Datagrams from every address; the announcer is not scheduled
NextHandler ==
    \/ StartCheck(1) \/ StartCreate(1) \/ StartLoad(1) \/ StartThread(1)
    \/ ReceiveAny(1) \/ Wake(1) \/ SendReply(1) \/ SendReplyFails(1) \/ Finish(1)

SpecHandler == Init /\ [][NextHandler]_vars

\* the steps of a start() or stop() call that is under way, and of a running
\* announcer, sendto() succeeding: a thread that can run does run
CallStep(c) ==
    \/ StartCreate(c) \/ StartLoad(c) \/ StartThread(c)
    \/ StopLoad(c) \/ StopIsAlive(c) \/ StopSet(c)
    \/ StopJoin(c) \/ StopClear(c) \/ StopReset(c)

RunStep(t) == LoopTest(t) \/ SendAlive(t) \/ Wait(t) \/ SendBye(t)

\* the steps of a receive loop, datagrams arriving again and again
ServeStep(c) == Receive(c) \/ Wake(c) \/ SendReply(c) \/ Finish(c)

\* the usual run: caller 1 starts the server and stays in its receive loop,
\* the other callers stop it, no sendto() raises; every thread that can run
\* does run and datagrams keep arriving
NextServe ==
    \/ StartCheck(1) \/ StartCreate(1) \/ StartLoad(1) \/ StartThread(1)
    \/ Receive(1) \/ Wake(1) \/ SendReply(1) \/ Finish(1)
    \/ \E c \in Callers \ {1} :
         \/ StopCheck(c) \/ StopLoad(c) \/ StopIsAlive(c) \/ StopSet(c)
         \/ StopJoin(c) \/ StopClear(c) \/ StopReset(c)
    \/ \E t \in Threads :
         \/ LoopTest(t) \/ SendAlive(t) \/ Wait(t) \/ SendBye(t)

SpecFair ==
    /\ Init /\ [][NextServe]_vars
    /\ \A c \in Callers : WF_vars(CallStep(c)) /\ WF_vars(ServeStep(c))
    /\ \A t \in Threads : WF_vars(RunStep(t))

\* ------------------------------------------------ the requests, as read
\* by the claims
Lines(dgram) == SplitLines(Strip(dgram))

FirstLineIsSearch(dgram) == Lines(dgram)[1] = UPNP_SEARCH

IsHeader(line, name) ==
    LET parts == SplitField(line) IN Len(parts) = 2 /\ Strip(parts[1]) = <<name>>

HeaderValue(line) == Strip(SplitField(line)[2])

HeaderIndexes(dgram, name) ==
    {i \in 2..Len(Lines(dgram)) : IsHeader(Lines(dgram)[i], name)}

CarriesDialST(dgram) ==
    \E i \in HeaderIndexes(dgram, "ST") : HeaderValue(Lines(dgram)[i]) = SSDP_NT

\* every header line holds a ':'
WellFormed(dgram) ==
    \A i \in 2..Len(Lines(dgram)) : Len(SplitField(Lines(dgram)[i])) = 2

IntegerMX(dgram) ==
    {i \in HeaderIndexes(dgram, "MX") : ParseInt(HeaderValue(Lines(dgram)[i])).ok}

\* MX of the claims: the integer of the (last) MX header that holds one,
\* the default when there is none
RequestedMX(dgram) ==
    IF IntegerMX(dgram) = {} THEN BACKOFF_DEFAULT
    ELSE LET i == CHOOSE j \in IntegerMX(dgram) : \A m \in IntegerMX(dgram) : m <= j
         IN ParseInt(HeaderValue(Lines(dgram)[i])).val

Done(c) == handler[c].ph = "done"

\* ------------------------------------------------------------ the claims
\* C1: every datagram whose first line is the search-request line and which
\* carries an ST header equal to the search target gets exactly one reply
\* datagram, sent to the sender's address after a delay within [0, MX], MX
\* the integer of the MX header or the default 10.  Stated on the requests
\* every header line of which holds a ':'.
C1_OneReplyWithinMX ==
    \A c \in Callers :
        (/\ Done(c)
         /\ FirstLineIsSearch(handler[c].dgram)
         /\ WellFormed(handler[c].dgram)
         /\ CarriesDialST(handler[c].dgram))
        => /\ handler[c].out = <<handler[c].src>>
           /\ handler[c].delay \in 0..RequestedMX(handler[c].dgram)

\* C2: a search request with a matching ST and no MX header that holds an
\* integer is handled without an error: the delay is bounded by
\* BACKOFF_DEFAULT and the reply is sent.  Stated on the requests every
\* header line of which holds a ':'.
C2_DefaultBackoffNoError ==
    \A c \in Callers :
        (/\ Done(c)
         /\ FirstLineIsSearch(handler[c].dgram)
         /\ WellFormed(handler[c].dgram)
         /\ CarriesDialST(handler[c].dgram)
         /\ IntegerMX(handler[c].dgram) = {})
        => /\ handler[c].exc \in {"none", "socket.error"}
           /\ handler[c].bound = <<BACKOFF_DEFAULT>>
           /\ handler[c].exc = "none" => handler[c].out # <<>>

\* C3: for a datagram whose first line is not exactly the search-request
\* line the handler sends no datagram, whatever headers follow.
C3_NoReplyToOtherRequestLine ==
    \A c \in Callers :
        (handler[c].ph # "none" /\ ~FirstLineIsSearch(handler[c].dgram))
        => handler[c].out = <<>> /\ handler[c].ph = "done"

\* a datagram with another first line, a matching ST and an integer MX has
\* been handled
C3_Witness ==
    \E c \in Callers :
        /\ Done(c)
        /\ ~FirstLineIsSearch(handler[c].dgram)
        /\ WellFormed(handler[c].dgram)
        /\ CarriesDialST(handler[c].dgram)
        /\ IntegerMX(handler[c].dgram) # {}
        /\ RequestedMX(handler[c].dgram) >= 0

\* C4: for a search request no ST header of which equals the search target
\* the handler sends no reply, whatever the MX header and the other lines.
C4_NoReplyWithoutDialST ==
    \A c \in Callers :
        (/\ handler[c].ph # "none"
         /\ FirstLineIsSearch(handler[c].dgram)
         /\ ~CarriesDialST(handler[c].dgram))
        => handler[c].out = <<>> /\ handler[c].ph = "done"

\* a search request with an ST header for another target and an integer MX
\* has been handled
C4_Witness ==
    \E c \in Callers :
        /\ Done(c)
        /\ FirstLineIsSearch(handler[c].dgram)
        /\ WellFormed(handler[c].dgram)
        /\ HeaderIndexes(handler[c].dgram, "ST") # {}
        /\ ~CarriesDialST(handler[c].dgram)
        /\ IntegerMX(handler[c].dgram) # {}
        /\ RequestedMX(handler[c].dgram) >= 0

\* C5: while the handler of one request is in its backoff sleep, the receive
\* loop that runs it can take and dispatch the next datagram.
C5_ReceiveDuringBackoff ==
    \A c \in Callers :
        (caller[c].pc = "serve" /\ handler[c].ph = "sleep") => ENABLED Receive(c)

\* C6: after a stop() on a started server has returned, the receive loop
\* halts and the start() call that was blocked in it returns.
C6_StartReturnsAfterStop ==
    \A c \in Callers :
        (stopped /\ caller[c].pc = "serve") ~> (caller[c].pc # "serve")

\* C7: no datagram (alive, byebye or reply) is sent after a stop() call on
\* a started server has returned.
C7_NoSendAfterStop == ~after

\* C8: a stop() call that found the announcer running does not return
\* before the announcer has sent its whole byebye cycle and has ended.
C8_StopWaitsForByebye ==
    \A c \in Callers :
        (caller[c].pc = "p_reset" /\ caller[c].joined)
        => /\ thread[caller[c].ref].life = "dead"
           /\ \A a \in 1..NumAds : sentBye[caller[c].ref][a] = Repeats

\* C9: an announcer that was running and asked to stop ends only after it
\* has broadcast every advertisment as a byebye `repeats` times, once, with
\* no alive after the first byebye.
C9_ByebyeCycleOnce ==
    \A t \in Threads :
        (thread[t].life = "dead" /\ asked[t])
        => /\ \A a \in 1..NumAds : sentBye[t][a] = Repeats
           /\ ~mixed[t]

\* C10 as claimed: no alive is sent after stop() has been invoked, wherever
\* in its cycle the announcer is.
C10_NoAliveAfterStop == \A t \in Threads : ~late[t]

\* C10 as amended: once stop() has set the stop event of a running
\* announcer, the event stays set while the announcer runs and the
\* announcer begins no alive cycle; the alives sent after that are the sends
\* left of the cycle it was in.
C10_NoNewCycleAfterStopSet ==
    [][\A t \in Threads :
          (stopping[t] /\ thread[t].life = "alive")
          => /\ stopping'[t]
             /\ thread[t].pc # "alive" => thread'[t].pc # "alive"]_vars

\* the stop event is set and the announcer is in the middle of an alive
\* cycle, of which it has sent an alive since stop() found it running
C10_Witness ==
    \E t \in Threads :
        /\ stopping[t]
        /\ late[t]
        /\ thread[t].life = "alive"
        /\ thread[t].pc = "alive"
        /\ thread[t].k > 0

\* the usual run, but a sendto() of the announcer may raise: a thread that
\* can run does run and datagrams keep arriving, and nothing obliges a
\* sendto() to raise
NextServeFailing == NextServe \/ \E t \in Threads : SendFails(t)

SpecFairFailing ==
    /\ Init /\ [][NextServeFailing]_vars
    /\ \A c \in Callers : WF_vars(CallStep(c)) /\ WF_vars(ServeStep(c))
    /\ \A t \in Threads : WF_vars(RunStep(t))

\* some stop() call is under way
StopUnderWay ==
    \E c \in Callers :
        caller[c].pc \in {"p_load", "p_alive", "p_set", "p_join", "p_clear", "p_reset"}

\* C11: a running announcer in its interval wait goes on to another alive
\* cycle and broadcasts every advertisment in it, unless a stop() is called
\* first.
C11_AliveRecurs ==
    \A t \in Threads :
        (thread[t].life = "alive" /\ thread[t].pc = "wait")
        ~> \/ StopUnderWay
           \/ asked[t]
           \/ thread[t].pc = "alive" /\ thread[t].k >= NumAds

\* a stop() call that begins when no other call is under way: start() is
\* not yet called or is in its receive loop, every other stop() has returned
StopAlone(c) ==
    /\ caller[Main].pc \in {"idle", "serve"}
    /\ \A d \in Callers : caller[d].pc = "idle"
    /\ StopCheck(c)

\* Main starts the server, the callers call stop() one after the other
NextSequence ==
    \/ StartCheck(Main) \/ StartCreate(Main) \/ StartLoad(Main) \/ StartThread(Main)
    \/ \E c \in Callers :
         \/ StopAlone(c) \/ StopLoad(c) \/ StopIsAlive(c) \/ StopSet(c)
         \/ StopJoin(c) \/ StopClear(c) \/ StopReset(c)
    \/ \E t \in Threads :
         \/ LoopTest(t) \/ SendAlive(t) \/ Wait(t) \/ SendBye(t) \/ SendFails(t)

SpecSequence == Init /\ [][NextSequence]_vars

\* one byebye cycle has been broadcast in all
OneByebyeCycle ==
    \E t \in Threads :
        /\ \A a \in 1..NumAds : sentBye[t][a] = Repeats
        /\ \A u \in Threads \ {t} : \A a \in 1..NumAds : sentBye[u][a] = 0

\* C12: stop() calls made one after the other never raise; once the stop()
\* of a started server has returned, exactly one byebye cycle has been
\* broadcast and a further stop() does nothing and returns at once; stop()
\* on a server that was never started sends nothing.
C12_StopTwiceAsOnce ==
    /\ \A c \in Callers : caller[c].pc # "raised"
    /\ stopped =>
          /\ OneByebyeCycle
          /\ \A c \in Callers : caller[c].pc = "idle"
    /\ (caller[Main].pc = "serve" /\ announcer = 0) => stopped
    /\ caller[Main].pc = "idle" =>
          /\ \A c \in Callers : caller[c].pc = "idle"
          /\ \A t \in Threads : thread[t].msg = NoMsg

\* C13: at most one announcer thread of the server is alive, whatever
\* start() and stop() calls were made and however they interleave.
C13_AtMostOneAlive ==
    Cardinality({t \in Threads : thread[t].life = "alive"}) <= 1

\* C14: a sendto() that raises in the announcer does not end the announcer:
\* an announcer thread ends only after a stop() found it running, and then
\* with its byebye cycle broadcast in full.
C14_SendFailureSkipped ==
    \A t \in Threads :
        thread[t].life = "dead"
        => asked[t] /\ \A a \in 1..NumAds : sentBye[t][a] = Repeats

\* a datagram the claims call malformed: another request line (the empty
\* payload has one) or a header line without ':'
Malformed(dgram) == ~FirstLineIsSearch(dgram) \/ ~WellFormed(dgram)

\* C15: a malformed datagram is handled to its end with no reply sent and
\* with the receive loop still running, and the step after it leaves the
\* loop between two datagrams, its handler state that of a loop which has
\* received nothing yet: the next datagram is received and handled as the
\* first one is.
C15_MalformedIsolated ==
    /\ [](\A c \in Callers :
            (handler[c].ph # "none" /\ Malformed(handler[c].dgram))
            => /\ handler[c].ph = "done"
               /\ handler[c].out = <<>>
               /\ caller[c].pc = "serve")
    /\ [][\A c \in Callers :
            (/\ handler[c].ph # "none"
             /\ Malformed(handler[c].dgram)
             /\ handler'[c] # handler[c])
            => /\ handler'[c] = NoHandler
               /\ caller'[c].pc = "serve"]_vars
    /\ [](\A c \in Callers : Receiving(c) => ENABLED ReceiveAny(c))

\* a search request with a matching ST and a header line without ':' has
\* been handled: handle() raised ValueError and the loop is running
C15_Witness ==
    \E c \in Callers :
        /\ Done(c)
        /\ FirstLineIsSearch(handler[c].dgram)
        /\ CarriesDialST(handler[c].dgram)
        /\ ~WellFormed(handler[c].dgram)
        /\ handler[c].exc = "ValueError"
        /\ caller[c].pc = "serve"

\* the alive sends of the cycle a running announcer is in are all done
CycleDone(t) == thread[t].pc = "alive" /\ thread[t].k = CycleLen - 1

\* C16: a running announcer takes up the cancellation (it turns to its
\* byebye cycle) at its loop test only and with the stop event set; it comes
\* to the loop test from the interval wait only, and to the interval wait
\* only by the last send of an alive cycle.  So every send of the alive cycle
\* a stop request fell into is done before the first byebye, and no alive
\* is sent once a byebye has been.
C16_CancelAtLoopTestOnly ==
    /\ [][\A t \in Threads :
            /\ (thread[t].pc # "bye" /\ thread'[t].pc = "bye")
               => thread[t].pc = "test" /\ stopping[t]
            /\ (thread[t].pc # "test" /\ thread'[t].pc = "test")
               => thread[t].pc = "wait"
            /\ (thread[t].pc # "wait" /\ thread'[t].pc = "wait")
               => CycleDone(t) /\ thread'[t].life = "alive"]_vars
    /\ [](\A t \in Threads : ~mixed[t])

\* a stop() found the announcer in the middle of an alive cycle and set its
\* event; the announcer sent the alives left of the cycle and is now in its
\* byebye cycle
C16_Witness ==
    \E t \in Threads :
        /\ late[t]
        /\ stopping[t]
        /\ thread[t].life = "alive"
        /\ thread[t].pc = "bye"
        /\ thread[t].k > 0
        /\ ~mixed[t]

\* the usn an announcement of advertisment a is to carry
SuffixedOnce(a) == FieldsAtInit["usn"] \o <<COLON, COLON, Advertisments[a]>>

\* C17: server.fields is at every moment the mapping the constructor built;
\* every reply that was sent carries its usn as it is, and the last alive or
\* byebye of every announcer carries it followed by one '::' and the
\* advertisment the message is for.
C17_FieldsNeverMutated ==
    /\ fields = FieldsAtInit
    /\ \A c \in Callers :
          handler[c].out # <<>> => handler[c].usn = FieldsAtInit["usn"]
    /\ \A t \in Threads :
          thread[t].msg # NoMsg
          => \E a \in 1..NumAds :
                /\ thread[t].msg.nt = <<Advertisments[a]>>
                /\ thread[t].msg.usn = SuffixedOnce(a)

\* a reply has been sent while an announcer, its alive cycles behind it, is
\* in the second round of its byebye cycle
C17_Witness ==
    \E c \in Callers, t \in Threads :
        /\ handler[c].out # <<>>
        /\ thread[t].pc = "bye"
        /\ sentBye[t][NumAds] >= 2
        /\ thread[t].msg.nt = <<Advertisments[NumAds]>>

\* C18: the handler of one request puts at most one datagram on the wire,
\* whatever counts sendto() reports.
C18_NoSecondCopy ==
    \A c \in Callers : Len(handler[c].out) <= 1

\* a stop() call that begins after the start() call of Main has begun
StopDuringStart(c) ==
    /\ caller[Main].pc # "idle"
    /\ StopCheck(c)

\* Main calls start(), the callers call stop() once that call has begun
NextRace ==
    \/ StartCheck(Main) \/ StartCreate(Main) \/ StartLoad(Main) \/ StartThread(Main)
    \/ \E c \in Callers :
         \/ StopDuringStart(c) \/ StopLoad(c) \/ StopIsAlive(c) \/ StopSet(c)
         \/ StopJoin(c) \/ StopClear(c) \/ StopReset(c)
    \/ \E t \in Threads :
         \/ LoopTest(t) \/ SendAlive(t) \/ Wait(t) \/ SendBye(t) \/ SendFails(t)

SpecRace == Init /\ [][NextRace]_vars

\* C19: start() does not raise on the read of self.announcer of line 149,
\* and no announcer thread is alive while self.announcer is None.
C19_StartStopRace ==
    /\ [][caller[Main].pc = "s_load" => caller'[Main].pc # "raised"]_vars
    /\ [](announcer = 0 => \A t \in Threads : thread[t].life # "alive")

\* a stop() call on the started server: the start() call of Main is in its
\* receive loop
StopStarted(c) ==
    /\ caller[Main].pc = "serve"
    /\ StopCheck(c)

\* Main starts the server and the callers call stop() on the started
\* server, at the same time or not; every sendto() of the announcer succeeds
NextStoppers ==
    \/ StartCheck(Main) \/ StartCreate(Main) \/ StartLoad(Main) \/ StartThread(Main)
    \/ \E c \in Callers :
         \/ StopStarted(c) \/ StopLoad(c) \/ StopIsAlive(c) \/ StopSet(c)
         \/ StopJoin(c) \/ StopClear(c) \/ StopReset(c)
    \/ \E t \in Threads :
         \/ LoopTest(t) \/ SendAlive(t) \/ Wait(t) \/ SendBye(t)

SpecStoppers == Init /\ [][NextStoppers]_vars

\* C20: stop() calls that run at the same time on a started server do not
\* raise, and when they have returned one byebye cycle has been broadcast.
C20_ConcurrentStops ==
    /\ \A c \in Callers : caller[c].pc # "raised"
    /\ (stopped /\ \A c \in Callers : caller[c].pc = "idle") => OneByebyeCycle

====
